---- MODULE Spec2Model ----
(***************************************************************************)
(* A model of src/ast/hvm_lang.rs: the definition-name registry            *)
(* (DefNames), the Term / Pattern data model, Term::to_string and the      *)
(* other renderers, Term::call, Term::subst and the Pattern -> Term        *)
(* conversion.                                                             *)
(*                                                                         *)
(* A returned Option<T> is modelled as a sequence of length at most one:   *)
(* None is << >> and Some(v) is << v >>.  A panic (unwrap on None, todo!)  *)
(* is modelled as the absence of a returned value.  An Option<Name> field  *)
(* of a Term or Pattern holds the name itself, or NoName for None; NoName  *)
(* is a value outside every set of names used here.                        *)
(***************************************************************************)
EXTENDS Integers, Sequences, FiniteSets

VARIABLES
  map,       \* DefNames.map: the BiHashMap, a set of <<def_id, name>> pairs
  id_count,  \* DefNames.id_count
  log,       \* history: one record per call of DefNames::insert
  ret,       \* the value returned by the last read-only registry call
  term,      \* the Term that subst rewrites in place
  orig,      \* history: the Term as it was before the first subst
  from,      \* the name subst replaces
  to,        \* the Term subst puts in its place
  nsubst,    \* how many times subst(from, to) has been applied to term
  subject,   \* the pure call to make (render, call, From<&Pattern>) and its argument
  out        \* None before the call, Some(what it returned) after it

vars == <<map, id_count, log, ret, term, orig, from, to, nsubst, subject, out>>

None == << >>
Some(v) == << v >>

NoName == "<none>"

-----------------------------------------------------------------------------
(* Bounds                                                                  *)

\* The number of DefNames::insert calls in one behaviour.
MaxInserts == 3

\* The names offered to DefNames::insert.
DefNameSet == {"main", "f", "g"}

-----------------------------------------------------------------------------
(* DefNames (the Name Registry)                                            *)

\* BiHashMap::get_by_left, cloned.
name(m, id) ==
  IF \E p \in m : p[1] = id
  THEN Some((CHOOSE p \in m : p[1] = id)[2])
  ELSE None

\* BiHashMap::get_by_right, copied.
def_id(m, nam) ==
  IF \E p \in m : p[2] = nam
  THEN Some((CHOOSE p \in m : p[2] = nam)[1])
  ELSE None

contains_name(m, nam) == \E p \in m : p[2] = nam

contains_def_id(m, id) == \E p \in m : p[1] = id

\* A report that looks at the left (identifier) side only.
OverwrittenLeftOnly(m, l, r) ==
  IF \E p \in m : p[1] = l THEN "Left" ELSE "Neither"

\* What BiHashMap::insert(l, r) reports: which existing pairs it overwrote.
Overwritten(m, l, r) ==
  LET hasL == \E p \in m : p[1] = l
      hasR == \E p \in m : p[2] = r
  IN  IF <<l, r>> \in m THEN "Pair"
      ELSE IF hasL /\ hasR THEN "Both"
      ELSE IF hasL THEN "Left"
      ELSE IF hasR THEN "Right"
      ELSE "Neither"

\* The map after BiHashMap::insert(l, r): the pairs that share the left or the
\* right value are removed, then the new pair is stored.
BiInsert(m, l, r) ==
  {p \in m : p[1] # l /\ p[2] # r} \cup {<<l, r>>}

\* A counter that is read but never advanced.
NextIdStuck(c) == c

\* id_count.0 += 1
NextId(c) == c + 1

\* DefNames::insert: the identifier is taken and the counter advanced first,
\* then the pair is written into the map, and only then is the map's report
\* inspected; anything but Overwritten::Neither reaches todo!().
InsertResult(m, c, nam) ==
  IF Overwritten(m, c, nam) = "Neither" THEN Some(c) ELSE None

\* The registry after insert(nam), whether or not the call panicked: the
\* borrows are released on unwinding and the writes stay.
InsertStep(reg, nam) ==
  [map |-> BiInsert(reg.map, reg.id_count, nam),
   id_count |-> NextId(reg.id_count),
   log |-> Append(reg.log, [nam |-> nam,
                            registered |-> contains_name(reg.map, nam),
                            res |-> InsertResult(reg.map, reg.id_count, nam)])]

Insert(nam) ==
  /\ Len(log) < MaxInserts
  /\ LET reg == InsertStep([map |-> map, id_count |-> id_count, log |-> log], nam)
     IN  /\ map' = reg.map
         /\ id_count' = reg.id_count
         /\ log' = reg.log
  /\ ret' = None
  /\ UNCHANGED <<term, orig, from, to, nsubst, subject, out>>

\* The identifiers a caller can ask about: every one handed out, and the next.
IdsAsked == 0 .. MaxInserts

QueryName(id) ==
  /\ ret' = Some([call |-> "name", arg |-> Some(id), res |-> name(map, id)])
  /\ UNCHANGED <<map, id_count, log, term, orig, from, to, nsubst, subject, out>>

QueryDefId(nam) ==
  /\ ret' = Some([call |-> "def_id", arg |-> Some(nam), res |-> def_id(map, nam)])
  /\ UNCHANGED <<map, id_count, log, term, orig, from, to, nsubst, subject, out>>

QueryContainsName(nam) ==
  /\ ret' = Some([call |-> "contains_name", arg |-> Some(nam),
                  res |-> Some(contains_name(map, nam))])
  /\ UNCHANGED <<map, id_count, log, term, orig, from, to, nsubst, subject, out>>

QueryContainsDefId(id) ==
  /\ ret' = Some([call |-> "contains_def_id", arg |-> Some(id),
                  res |-> Some(contains_def_id(map, id))])
  /\ UNCHANGED <<map, id_count, log, term, orig, from, to, nsubst, subject, out>>

\* DefNames::new / Default: an empty map and a zero counter.
InitRegistry ==
  /\ map = {}
  /\ id_count = 0
  /\ log = << >>
  /\ ret = None

Idle == [tag |-> "Era"]

NoCall == [op |-> "none", arg |-> NoName]

InitReg ==
  /\ InitRegistry
  /\ term = Idle /\ orig = Idle /\ from = "x" /\ to = Idle /\ nsubst = 0
  /\ subject = NoCall /\ out = None

NextReg ==
  \/ \E nam \in DefNameSet : Insert(nam)
  \/ \E id \in IdsAsked : QueryName(id)
  \/ \E nam \in DefNameSet : QueryDefId(nam)
  \/ \E nam \in DefNameSet : QueryContainsName(nam)
  \/ \E id \in IdsAsked : QueryContainsDefId(id)

SpecReg == InitReg /\ [][NextReg]_vars

-----------------------------------------------------------------------------
(* Term                                                                    *)

Lam(nam, bod) == [tag |-> "Lam", nam |-> nam, bod |-> bod]
Var(nam) == [tag |-> "Var", nam |-> nam]
Chn(nam, bod) == [tag |-> "Chn", nam |-> nam, bod |-> bod]
Lnk(nam) == [tag |-> "Lnk", nam |-> nam]
Let(nam, val, nxt) == [tag |-> "Let", nam |-> nam, val |-> val, nxt |-> nxt]
Ref(id) == [tag |-> "Ref", def_id |-> id]
App(fun, arg) == [tag |-> "App", fun |-> fun, arg |-> arg]
If(cond, then, els) == [tag |-> "If", cond |-> cond, then |-> then, els_ |-> els]
Dup(fst, snd, val, nxt) ==
  [tag |-> "Dup", fst |-> fst, snd |-> snd, val |-> val, nxt |-> nxt]
Sup(fst, snd) == [tag |-> "Sup", fst |-> fst, snd |-> snd]
Era == [tag |-> "Era"]
Num(val) == [tag |-> "Num", val |-> val]
Opx(op, fst, snd) == [tag |-> "Opx", op |-> op, fst |-> fst, snd |-> snd]

Ops == {"ADD", "SUB", "MUL", "DIV", "MOD", "EQ", "NE", "LT", "GT",
        "AND", "OR", "XOR", "NOT", "LSH", "RSH"}

-----------------------------------------------------------------------------
(* Term::subst                                                             *)

\* A Lambda arm without its guard.
LamShadowsNever(nam, frm) == FALSE

\* Term::Lam { nam: Some(nam), .. } if nam == from
LamShadows(nam, frm) == nam # NoName /\ nam = frm

\* Term::Var { nam } if nam == from
VarMatches(nam, frm) == nam = frm

\* A Let arm that never enters the continuation.
LetShadowsAlways(nam, frm) == TRUE

\* The negation of `nam != from` in the Let arm.
LetShadows(nam, frm) == nam = frm

\* A Dup arm that tests its first name only.
DupShadowsFstOnly(fst, snd, frm) == fst # NoName /\ fst = frm

\* The negation of the Dup arm's condition: map_or(true, ..) lets an absent
\* name through.
DupShadows(fst, snd, frm) ==
  ~ (  (IF fst = NoName THEN TRUE ELSE fst # frm)
    /\ (IF snd = NoName THEN TRUE ELSE snd # frm))

RECURSIVE Subst(_, _, _)

\* A Channel arm written like the Lambda arm.
SubstChnScoped(t, frm, too) ==
  IF t.nam = frm THEN t ELSE [t EXCEPT !.bod = Subst(t.bod, frm, too)]

\* Term::Chn { bod, .. } => bod.subst(from, to): the name is not looked at.
SubstChn(t, frm, too) == [t EXCEPT !.bod = Subst(t.bod, frm, too)]

\* Term::Lnk { .. } => ()
SubstLnk(t, frm, too) == t

\* The term that `self` holds after self.subst(from, to).
Subst(t, frm, too) ==
  CASE t.tag = "Lam" ->
         IF LamShadows(t.nam, frm) THEN t
         ELSE [t EXCEPT !.bod = Subst(t.bod, frm, too)]
    [] t.tag = "Var" -> IF VarMatches(t.nam, frm) THEN too ELSE t
    [] t.tag = "Chn" -> SubstChn(t, frm, too)
    [] t.tag = "Lnk" -> SubstLnk(t, frm, too)
    [] t.tag = "Let" ->
         [t EXCEPT !.val = Subst(t.val, frm, too),
                   !.nxt = IF LetShadows(t.nam, frm) THEN t.nxt
                           ELSE Subst(t.nxt, frm, too)]
    [] t.tag = "If" ->
         [t EXCEPT !.cond = Subst(t.cond, frm, too),
                   !.then = Subst(t.then, frm, too),
                   !.els_ = Subst(t.els_, frm, too)]
    [] t.tag = "Ref" -> t
    [] t.tag = "App" ->
         [t EXCEPT !.fun = Subst(t.fun, frm, too),
                   !.arg = Subst(t.arg, frm, too)]
    [] t.tag = "Dup" ->
         [t EXCEPT !.val = Subst(t.val, frm, too),
                   !.nxt = IF DupShadows(t.fst, t.snd, frm) THEN t.nxt
                           ELSE Subst(t.nxt, frm, too)]
    [] t.tag = "Sup" ->
         [t EXCEPT !.fst = Subst(t.fst, frm, too),
                   !.snd = Subst(t.snd, frm, too)]
    [] t.tag = "Era" -> t
    [] t.tag = "Num" -> t
    [] t.tag = "Opx" ->
         [t EXCEPT !.fst = Subst(t.fst, frm, too),
                   !.snd = Subst(t.snd, frm, too)]

-----------------------------------------------------------------------------
(* The terms the checks range over                                         *)

\* The greatest nesting depth of a generated Term.
MaxDepth == 2

VarNames == {"x", "y"}

OptNames == {NoName} \cup VarNames

Leaves == {Var("x"), Var("y"), Lnk("x"), Num(42)}

\* The child put beside the generated one in a node with several children
\* (some wrappers put a Reference or an Erase there instead).
Sib == Var("x")

\* The ways to put a node around a term s: every binder with every choice of
\* its names, s below the binder (and for Let and Dup also as the bound
\* value), every other variant with s as each of its children in turn, and
\* "Same", which adds no node.
Wrappers ==
  {[k |-> "Same", f |-> NoName, g |-> NoName]}
  \cup {[k |-> "Lam", f |-> n, g |-> NoName] : n \in OptNames}
  \cup {[k |-> "Chn", f |-> n, g |-> NoName] : n \in VarNames}
  \cup {[k |-> "LetVal", f |-> n, g |-> NoName] : n \in VarNames}
  \cup {[k |-> "LetNxt", f |-> n, g |-> NoName] : n \in VarNames}
  \cup {[k |-> "DupNxt", f |-> n, g |-> m] : n \in OptNames, m \in OptNames}
  \cup {[k |-> w, f |-> NoName, g |-> NoName] :
          w \in {"DupVal", "AppFun", "AppArg", "IfCond", "IfThen", "IfEls",
                 "SupFst", "SupSnd", "OpxFst", "OpxSnd"}}

WrapIn(w, s) ==
  CASE w.k = "Same" -> s
    [] w.k = "Lam" -> Lam(w.f, s)
    [] w.k = "Chn" -> Chn(w.f, s)
    [] w.k = "LetVal" -> Let(w.f, s, Sib)
    [] w.k = "LetNxt" -> Let(w.f, Sib, s)
    [] w.k = "DupNxt" -> Dup(w.f, w.g, Sib, s)
    [] w.k = "DupVal" -> Dup("x", "y", s, Sib)
    [] w.k = "AppFun" -> App(s, Sib)
    [] w.k = "AppArg" -> App(Ref(0), s)
    [] w.k = "IfCond" -> If(s, Sib, Era)
    [] w.k = "IfThen" -> If(Sib, s, Era)
    [] w.k = "IfEls" -> If(Era, Sib, s)
    [] w.k = "SupFst" -> Sup(s, Era)
    [] w.k = "SupSnd" -> Sup(Sib, s)
    [] w.k = "OpxFst" -> Opx("ADD", s, Sib)
    [] w.k = "OpxSnd" -> Opx("SUB", Sib, s)

\* The term with leaf l at the bottom and ws[1], ws[2], ... around it,
\* innermost first.
RECURSIVE Build(_, _, _)
Build(l, ws, n) ==
  IF n = 0 THEN l ELSE WrapIn(ws[n], Build(l, ws, n - 1))

\* The replacement terms offered to subst.
Replacements == {Num(5), Var("y"), Sup(Var("x"), Num(5))}

-----------------------------------------------------------------------------
(* The substitution machine: one Term, rewritten in place by subst         *)

InitSubst ==
  /\ InitRegistry
  /\ \E l \in Leaves, ws \in [1 .. MaxDepth -> Wrappers] :
       orig = Build(l, ws, MaxDepth)
  /\ term = orig
  /\ from \in VarNames
  /\ to \in Replacements
  /\ nsubst = 0
  /\ subject = NoCall /\ out = None

\* term.subst(&from, &to)
DoSubst ==
  /\ nsubst < 2
  /\ term' = Subst(term, from, to)
  /\ nsubst' = nsubst + 1
  /\ UNCHANGED <<map, id_count, log, ret, orig, from, to, subject, out>>

NextSubst == DoSubst

SpecSubst == InitSubst /\ [][NextSubst]_vars

-----------------------------------------------------------------------------
(* Pattern, Rule, Definition                                               *)

PatCtr(nam, args) == [tag |-> "Pattern::Ctr", nam |-> nam, args |-> args]
PatVar(nam) == [tag |-> "Pattern::Var", nam |-> nam]
PatNum(val) == [tag |-> "Pattern::Num", val |-> val]

Rule(id, pats, body) == [def_id |-> id, pats |-> pats, body |-> body]
Definition(id, rules) == [def_id |-> id, rules |-> rules]

-----------------------------------------------------------------------------
(* Term::call and From<&Pattern> for Term                                  *)

\* An application built the wrong way round.
CallStepFlipped(acc, arg) == App(arg, acc)

\* The fold's closure: |acc, arg| Term::App { fun: acc, arg }
CallStep(acc, arg) == App(acc, arg)

\* args.into_iter().fold(called, ..): the arguments are taken from the front.
RECURSIVE Call(_, _)
Call(called, args) ==
  IF args = << >> THEN called
  ELSE Call(CallStep(called, Head(args)), Tail(args))

\* An unnamed pattern variable given the renderer's wildcard.
PatVarNameStar(nam) == IF nam = NoName THEN "*" ELSE nam

\* nam.as_ref().map(|x| x.as_str()).unwrap_or("_")
PatVarName(nam) == IF nam = NoName THEN "_" ELSE nam

RECURSIVE FromPattern(_)
FromPattern(p) ==
  CASE p.tag = "Pattern::Ctr" ->
         Call(Var(p.nam), [i \in 1 .. Len(p.args) |-> FromPattern(p.args[i])])
    [] p.tag = "Pattern::Var" -> Var(PatVarName(p.nam))
    [] p.tag = "Pattern::Num" -> Num(p.val)

-----------------------------------------------------------------------------
(* Rendering.  A renderer returns Some(string), or None when it panics.    *)

Digit(d) ==
  CASE d = 0 -> "0" [] d = 1 -> "1" [] d = 2 -> "2" [] d = 3 -> "3"
    [] d = 4 -> "4" [] d = 5 -> "5" [] d = 6 -> "6" [] d = 7 -> "7"
    [] d = 8 -> "8" [] d = 9 -> "9"

\* format!("{val}") of a u32: its decimal digits.
RECURSIVE ToDecimal(_)
ToDecimal(n) ==
  IF n < 10 THEN Digit(n) ELSE ToDecimal(n \div 10) \o Digit(n % 10)

\* Display for Op
OpSymbol(op) ==
  CASE op = "ADD" -> "+" [] op = "SUB" -> "-" [] op = "MUL" -> "*"
    [] op = "DIV" -> "/" [] op = "MOD" -> "%" [] op = "EQ" -> "=="
    [] op = "NE" -> "!=" [] op = "LT" -> "<" [] op = "GT" -> ">"
    [] op = "AND" -> "&" [] op = "OR" -> "|" [] op = "XOR" -> "^"
    [] op = "NOT" -> "~" [] op = "LSH" -> "<<" [] op = "RSH" -> ">>"

\* unwrap_or("*") of an optional name
NameOrStar(nam) == IF nam = NoName THEN "*" ELSE nam

\* format!: the pieces are evaluated in order and concatenated; a piece that
\* panics makes the whole call panic.
RECURSIVE Cat(_)
Cat(parts) ==
  IF parts = << >> THEN Some("")
  ELSE LET rest == Cat(Tail(parts))
       IN  IF Head(parts) = None \/ rest = None THEN None
           ELSE Some(Head(parts)[1] \o rest[1])

\* Itertools::join(sep) over rendered items.
RECURSIVE Join(_, _)
Join(items, sep) ==
  IF items = << >> THEN Some("")
  ELSE IF Len(items) = 1 THEN Head(items)
  ELSE Cat(<<Head(items), Some(sep), Join(Tail(items), sep)>>)

\* A lookup that renders a missing name as the empty string.
LookupNameOrEmpty(m, id) == IF name(m, id) = None THEN Some("") ELSE name(m, id)

\* def_names.name(def_id).unwrap(): None is the panic.
LookupName(m, id) == name(m, id)

RECURSIVE ToString(_, _)
ToString(t, m) ==
  CASE t.tag = "Lam" ->
         Cat(<<Some("λ"), Some(NameOrStar(t.nam)), Some(" "), ToString(t.bod, m)>>)
    [] t.tag = "Var" -> Some(t.nam)
    [] t.tag = "Chn" -> Cat(<<Some("λ$"), Some(t.nam), Some(" "), ToString(t.bod, m)>>)
    [] t.tag = "Lnk" -> Some("$" \o t.nam)
    [] t.tag = "Let" ->
         Cat(<<Some("let "), Some(t.nam), Some(" = "), ToString(t.val, m),
               Some("; "), ToString(t.nxt, m)>>)
    [] t.tag = "Ref" -> LookupName(m, t.def_id)
    [] t.tag = "App" ->
         Cat(<<Some("("), ToString(t.fun, m), Some(" "), ToString(t.arg, m), Some(")")>>)
    [] t.tag = "If" ->
         Cat(<<Some("if "), ToString(t.cond, m), Some(" then "), ToString(t.then, m),
               Some(" else "), ToString(t.els_, m)>>)
    [] t.tag = "Dup" ->
         Cat(<<Some("dup "), Some(NameOrStar(t.fst)), Some(" "),
               Some(NameOrStar(t.snd)), Some(" = "), ToString(t.val, m),
               Some("; "), ToString(t.nxt, m)>>)
    [] t.tag = "Sup" ->
         Cat(<<Some("{"), ToString(t.fst, m), Some(" "), ToString(t.snd, m), Some("}")>>)
    [] t.tag = "Era" -> Some("*")
    [] t.tag = "Num" -> Some(ToDecimal(t.val))
    [] t.tag = "Opx" ->
         Cat(<<Some("("), Some(OpSymbol(t.op)), Some(" "), ToString(t.fst, m),
               Some(" "), ToString(t.snd, m), Some(")")>>)

\* Display for Pattern; it cannot panic.
RECURSIVE PatternToString(_)
RECURSIVE PatternsToString(_)
PatternsToString(ps) ==
  IF ps = << >> THEN ""
  ELSE " " \o PatternToString(Head(ps)) \o PatternsToString(Tail(ps))

PatternToString(p) ==
  CASE p.tag = "Pattern::Ctr" -> "(" \o p.nam \o PatternsToString(p.args) \o ")"
    [] p.tag = "Pattern::Var" -> NameOrStar(p.nam)
    [] p.tag = "Pattern::Num" -> ToDecimal(p.val)

RuleToString(r, m) ==
  Cat(<<Some("("), LookupName(m, r.def_id), Some(PatternsToString(r.pats)),
        Some(") = "), ToString(r.body, m)>>)

DefinitionToString(d, m) ==
  Join([i \in 1 .. Len(d.rules) |-> RuleToString(d.rules[i], m)], "\n")

\* Display for DefinitionBook, over its own def_names.
BookToString(defs, m) ==
  Join([i \in 1 .. Len(defs) |-> DefinitionToString(defs[i], m)], "\n\n")

-----------------------------------------------------------------------------
(* The rendering machine: a populated registry and pure calls against it   *)

\* The greatest number of arguments of a call and of sub-patterns of a
\* constructor pattern.
MaxArgs == 2

RECURSIVE SeqsUpTo(_, _)
SeqsUpTo(S, n) ==
  IF n = 0 THEN {<< >>}
  ELSE LET shorter == SeqsUpTo(S, n - 1)
       IN  shorter \cup {Append(q, e) : q \in {r \in shorter : Len(r) = n - 1}, e \in S}

\* The registry after the given inserts, from DefNames::new().
RECURSIVE RegistryAfter(_)
RegistryAfter(names) ==
  IF names = << >> THEN [map |-> {}, id_count |-> 0, log |-> << >>]
  ELSE InsertStep(RegistryAfter(SubSeq(names, 1, Len(names) - 1)),
                  names[Len(names)])

RenderRegistries == {<< >>, <<"main">>, <<"main", "f">>}

RenderLeaves == Leaves \cup {Ref(1), Era}

OpTerms == {Opx(op, Var("x"), Num(5)) : op \in Ops}

RuleSet ==
  {Rule(id, pats, body) :
     id \in {0, 1},
     pats \in {<< >>, <<PatVar("x")>>,
               <<PatCtr("Cons", <<PatVar("h"), PatVar(NoName)>>), PatNum(0)>>},
     body \in {Num(42), Ref(0), App(Ref(1), Var("x"))}}

DefinitionSet ==
  {Definition(id, rules) :
     id \in {0, 1},
     rules \in SeqsUpTo({Rule(0, << >>, Num(42)), Rule(1, <<PatVar("x")>>, Ref(0)),
                         Rule(0, <<PatNum(0)>>, Ref(1))}, 2)}

BookSet ==
  SeqsUpTo({Definition(0, <<Rule(0, << >>, Num(42))>>),
            Definition(1, <<Rule(1, <<PatVar("x")>>, Ref(0)),
                            Rule(1, <<PatNum(0)>>, Var("x"))>>),
            Definition(1, << >>)}, 2)

CalledSet == {Var("x"), Ref(0), Lam("x", Var("x")), App(Var("x"), Var("y"))}

ArgSet == {Var("y"), Num(42), App(Var("x"), Var("y"))}

PatLeaves == {PatVar(NoName), PatVar("h"), PatVar("t"), PatNum(7)}

CtrNames == {"Cons", "Nil"}

PatternSet ==
  PatLeaves
  \cup {PatCtr(c, args) : c \in CtrNames, args \in SeqsUpTo(PatLeaves, MaxArgs)}
  \cup {PatCtr(c, args) :
          c \in CtrNames,
          args \in SeqsUpTo({PatVar("h"), PatCtr("Nil", << >>),
                             PatCtr("Cons", <<PatVar("h"), PatVar("t")>>)}, MaxArgs)}

Asks(op, arg) == subject = [op |-> op, arg |-> arg]

\* A populated registry and one pure call to make against it.
InitRender ==
  /\ \E names \in RenderRegistries :
       LET reg == RegistryAfter(names)
       IN  map = reg.map /\ id_count = reg.id_count /\ log = reg.log
  /\ ret = None
  /\ term = Idle /\ orig = Idle /\ from = "x" /\ to = Idle /\ nsubst = 0
  /\ \/ \E l \in RenderLeaves, ws \in [1 .. MaxDepth -> Wrappers] :
          Asks("Term::to_string", Build(l, ws, MaxDepth))
     \/ \E t \in OpTerms : Asks("Term::to_string", t)
     \/ \E r \in RuleSet : Asks("Rule::to_string", r)
     \/ \E d \in DefinitionSet : Asks("Definition::to_string", d)
     \/ \E defs \in BookSet : Asks("DefinitionBook::fmt", defs)
     \/ \E called \in CalledSet, args \in SeqsUpTo(ArgSet, MaxArgs) :
          Asks("Term::call", [called |-> called, args |-> args])
     \/ \E p \in PatternSet : Asks("Term::from", p)
  /\ out = None

\* The call named by subject.op returns res (for a renderer: Some(string), or
\* None for a panic); the registry and the argument are only read.
Returns(op, res) ==
  /\ subject.op = op
  /\ out = None
  /\ out' = Some(res)
  /\ UNCHANGED <<map, id_count, log, ret, term, orig, from, to, nsubst, subject>>

\* subject.arg.to_string(&def_names) of a Term
RenderTerm == Returns("Term::to_string", ToString(subject.arg, map))

\* subject.arg.to_string(&def_names) of a Rule
RenderRule == Returns("Rule::to_string", RuleToString(subject.arg, map))

\* subject.arg.to_string(&def_names) of a Definition
RenderDefinition ==
  Returns("Definition::to_string", DefinitionToString(subject.arg, map))

\* format!("{book}"), the book owning the registry and the definitions
RenderBook == Returns("DefinitionBook::fmt", BookToString(subject.arg, map))

\* Term::call(called, args)
DoCall == Returns("Term::call", Call(subject.arg.called, subject.arg.args))

\* Term::from(&pattern)
DoFromPattern == Returns("Term::from", FromPattern(subject.arg))

NextRender ==
  \/ RenderTerm
  \/ RenderRule
  \/ RenderDefinition
  \/ RenderBook
  \/ DoCall
  \/ DoFromPattern

SpecRender == InitRender /\ [][NextRender]_vars

-----------------------------------------------------------------------------
(* Claims about the Name Registry (checked under SpecReg)                  *)

LogIndex == 1 .. Len(log)

DistinctNames == \A i, j \in LogIndex : i # j => log[i].nam # log[j].nam

\* C1: starting from an empty registry, if the names inserted so far are
\* pairwise distinct then every insert returned an identifier, each one
\* strictly greater than the one before, and def_id(name) and
\* name(identifier) give back exactly the pair each insert recorded.
C1_DistinctInsertsIncreaseAndRoundTrip ==
  DistinctNames =>
    /\ \A i \in LogIndex : log[i].res # None
    /\ \A i \in LogIndex : i > 1 => log[i].res[1] > log[i - 1].res[1]
    /\ \A i \in LogIndex :
         /\ def_id(map, log[i].nam) = log[i].res
         /\ name(map, log[i].res[1]) = Some(log[i].nam)

C1_Witness ==
  /\ Len(log) = 3
  /\ DistinctNames
  /\ log[3].res = Some(2)
  /\ def_id(map, log[1].nam) = Some(0)

\* C2: a pair recorded by a successful insert is never mutated or removed:
\* after any later inserts, failing ones included, name(identifier) is still
\* that name and def_id(name) is still that identifier.
C2_RecordedPairsNeverChange ==
  \A i \in LogIndex :
    log[i].res # None =>
      /\ name(map, log[i].res[1]) = Some(log[i].nam)
      /\ def_id(map, log[i].nam) = log[i].res

\* C3: insert(name) panics exactly when name was registered at the time of
\* the call; an insert of an unregistered name returns an identifier.
C3_InsertFailsIffRegistered ==
  \A i \in LogIndex : (log[i].res = None) <=> log[i].registered

C3_Witness ==
  /\ Len(log) = 3
  /\ log[1].res # None
  /\ log[2].res = None /\ log[2].registered
  /\ log[3].res # None /\ ~ log[3].registered

-----------------------------------------------------------------------------
(* Claims about Term::subst (checked under SpecSubst)                      *)

\* Whether t holds a Variable node named n, at any depth.
RECURSIVE HasVar(_, _)
HasVar(t, n) ==
  CASE t.tag = "Var" -> t.nam = n
    [] t.tag \in {"Lam", "Chn"} -> HasVar(t.bod, n)
    [] t.tag \in {"Let", "Dup"} -> HasVar(t.val, n) \/ HasVar(t.nxt, n)
    [] t.tag = "App" -> HasVar(t.fun, n) \/ HasVar(t.arg, n)
    [] t.tag = "If" -> HasVar(t.cond, n) \/ HasVar(t.then, n) \/ HasVar(t.els_, n)
    [] t.tag \in {"Sup", "Opx"} -> HasVar(t.fst, n) \/ HasVar(t.snd, n)
    [] OTHER -> FALSE

\* Whether t holds a Variable node named n that is not below a Lambda, a Let
\* continuation or a Duplicate continuation binding n.
RECURSIVE HasUnshadowedVar(_, _)
HasUnshadowedVar(t, n) ==
  CASE t.tag = "Var" -> t.nam = n
    [] t.tag = "Lam" -> t.nam # n /\ HasUnshadowedVar(t.bod, n)
    [] t.tag = "Chn" -> HasUnshadowedVar(t.bod, n)
    [] t.tag = "Let" ->
         HasUnshadowedVar(t.val, n) \/ (t.nam # n /\ HasUnshadowedVar(t.nxt, n))
    [] t.tag = "Dup" ->
         \/ HasUnshadowedVar(t.val, n)
         \/ (t.fst # n /\ t.snd # n /\ HasUnshadowedVar(t.nxt, n))
    [] t.tag = "App" -> HasUnshadowedVar(t.fun, n) \/ HasUnshadowedVar(t.arg, n)
    [] t.tag = "If" ->
         \/ HasUnshadowedVar(t.cond, n) \/ HasUnshadowedVar(t.then, n)
         \/ HasUnshadowedVar(t.els_, n)
    [] t.tag \in {"Sup", "Opx"} ->
         HasUnshadowedVar(t.fst, n) \/ HasUnshadowedVar(t.snd, n)
    [] OTHER -> FALSE

\* The names of the Link nodes of t, in the order a left-to-right walk meets them.
RECURSIVE Links(_)
Links(t) ==
  CASE t.tag = "Lnk" -> <<t.nam>>
    [] t.tag \in {"Lam", "Chn"} -> Links(t.bod)
    [] t.tag \in {"Let", "Dup"} -> Links(t.val) \o Links(t.nxt)
    [] t.tag = "App" -> Links(t.fun) \o Links(t.arg)
    [] t.tag = "If" -> Links(t.cond) \o Links(t.then) \o Links(t.els_)
    [] t.tag \in {"Sup", "Opx"} -> Links(t.fst) \o Links(t.snd)
    [] OTHER -> << >>

\* C4: after one subst(from, to), a Lambda binding `from` is unchanged, a
\* Lambda binding another name or none has subst applied to its body, and a
\* Variable is replaced by `to` exactly when it is named `from`; subst of x
\* in \x. x gives \x. x and subst of x by 5 in \y. x gives \y. 5.
C4_LambdaShadowsVariableReplaced ==
  nsubst = 1 =>
    /\ (orig.tag = "Lam" /\ orig.nam = from) => term = orig
    /\ (orig.tag = "Lam" /\ orig.nam # from) =>
         term = Lam(orig.nam, Subst(orig.bod, from, to))
    /\ (orig.tag = "Var" /\ orig.nam = from) => term = to
    /\ (orig.tag = "Var" /\ orig.nam # from) => term = orig
    /\ (orig = Lam("x", Var("x")) /\ from = "x") => term = Lam("x", Var("x"))
    /\ (orig = Lam("y", Var("x")) /\ from = "x" /\ to = Num(5)) =>
         term = Lam("y", Num(5))
    /\ (orig = Lam(NoName, Var("x")) /\ from = "x" /\ to = Num(5)) =>
         term = Lam(NoName, Num(5))

C4_Witness ==
  /\ nsubst = 1
  /\ orig = Lam("x", Lam("y", Var("x"))) /\ from = "y" /\ to = Num(5)
  /\ term = orig

\* C5: after one subst(from, to), a Channel always has subst applied to its
\* body and keeps its own name, also when that name is `from`, and a Link is
\* never replaced: the Link nodes of the term are those it had before
\* (given a replacement without Links); subst of x by 5 in \$x. x gives
\* \$x. 5.
C5_ChannelAndLinkAreScopeless ==
  nsubst = 1 =>
    /\ orig.tag = "Chn" => term = Chn(orig.nam, Subst(orig.bod, from, to))
    /\ orig.tag = "Lnk" => term = orig
    /\ Links(to) = << >> => Links(term) = Links(orig)
    /\ (orig = Chn("x", Var("x")) /\ from = "x" /\ to = Num(5)) =>
         term = Chn("x", Num(5))
    /\ (orig = Chn("x", Lnk("x")) /\ from = "x") => term = orig

C5_Witness ==
  /\ nsubst = 1
  /\ orig = Chn("x", Chn("y", Var("x"))) /\ from = "x" /\ to = Num(5)
  /\ term = Chn("x", Chn("y", Num(5)))

\* C6: after one subst(from, to), a Let and a Duplicate always have subst
\* applied to the bound value, and to the continuation if and only if no
\* name the node binds is `from` (an absent Duplicate name binds nothing);
\* subst of x in dup x y = x; x rewrites the value and not the continuation.
C6_LetAndDupShadowContinuation ==
  nsubst = 1 =>
    /\ orig.tag = "Let" =>
         term = Let(orig.nam, Subst(orig.val, from, to),
                    IF orig.nam = from THEN orig.nxt
                    ELSE Subst(orig.nxt, from, to))
    /\ orig.tag = "Dup" =>
         term = Dup(orig.fst, orig.snd, Subst(orig.val, from, to),
                    IF orig.fst = from \/ orig.snd = from THEN orig.nxt
                    ELSE Subst(orig.nxt, from, to))
    /\ (orig = Dup("x", "y", Var("x"), Var("x")) /\ from = "x" /\ to = Num(5)) =>
         term = Dup("x", "y", Num(5), Var("x"))
    /\ (orig = Dup(NoName, NoName, Var("x"), Var("x")) /\ from = "x" /\ to = Num(5)) =>
         term = Dup(NoName, NoName, Num(5), Num(5))
    /\ (orig = Let("x", Var("x"), Var("x")) /\ from = "x" /\ to = Num(5)) =>
         term = Let("x", Num(5), Var("x"))

C6_Witness ==
  /\ nsubst = 1
  /\ orig = Dup("y", "x", Var("x"), Lam("y", Var("x")))
  /\ from = "x" /\ to = Var("y")
  /\ term = Dup("y", "x", Var("y"), Lam("y", Var("x")))

\* C10: when `to` holds no Variable named `from`, a second subst(from, to)
\* changes nothing, and after the first one every Variable named `from`
\* that is left lies below a Lambda, Let continuation or Duplicate
\* continuation that binds `from`.
C10_SubstIdempotent ==
  /\ [][(nsubst = 1 /\ ~ HasVar(to, from)) => term' = term]_vars
  /\ []((nsubst >= 1 /\ ~ HasVar(to, from)) => ~ HasUnshadowedVar(term, from))

C10_Witness ==
  /\ nsubst = 2
  /\ ~ HasVar(to, from)
  /\ term # orig
  /\ HasVar(term, from)

-----------------------------------------------------------------------------
(* Claims about rendering, Term::call and pattern elaboration (checked     *)
(* under SpecRender)                                                       *)

Renderers ==
  {"Term::to_string", "Rule::to_string", "Definition::to_string",
   "DefinitionBook::fmt"}

Rendered == subject.op \in Renderers /\ out # None

Panicked == out[1] = None

RECURSIVE RulesOfBook(_)
RulesOfBook(defs) ==
  IF defs = << >> THEN << >> ELSE Head(defs).rules \o RulesOfBook(Tail(defs))

\* The Rules the call renders, and the Terms it renders.
RenderedRules ==
  CASE subject.op = "Rule::to_string" -> <<subject.arg>>
    [] subject.op = "Definition::to_string" -> subject.arg.rules
    [] subject.op = "DefinitionBook::fmt" -> RulesOfBook(subject.arg)
    [] OTHER -> << >>

RenderedTerms ==
  IF subject.op = "Term::to_string" THEN {subject.arg}
  ELSE {RenderedRules[i].body : i \in 1 .. Len(RenderedRules)}

\* Whether t holds a Reference whose identifier the registry does not hold.
RECURSIVE HasDanglingRef(_, _)
HasDanglingRef(t, m) ==
  CASE t.tag = "Ref" -> ~ contains_def_id(m, t.def_id)
    [] t.tag \in {"Lam", "Chn"} -> HasDanglingRef(t.bod, m)
    [] t.tag \in {"Let", "Dup"} -> HasDanglingRef(t.val, m) \/ HasDanglingRef(t.nxt, m)
    [] t.tag = "App" -> HasDanglingRef(t.fun, m) \/ HasDanglingRef(t.arg, m)
    [] t.tag = "If" ->
         \/ HasDanglingRef(t.cond, m) \/ HasDanglingRef(t.then, m)
         \/ HasDanglingRef(t.els_, m)
    [] t.tag \in {"Sup", "Opx"} -> HasDanglingRef(t.fst, m) \/ HasDanglingRef(t.snd, m)
    [] OTHER -> FALSE

DanglingReference == \E t \in RenderedTerms : HasDanglingRef(t, map)

DanglingRuleId ==
  \E i \in 1 .. Len(RenderedRules) : ~ contains_def_id(map, RenderedRules[i].def_id)

\* C7 as stated: rendering panics exactly when a Reference term it renders
\* has an identifier absent from the registry.
C7_FailsOnlyOnDanglingReferenceTerm ==
  Rendered => (Panicked <=> DanglingReference)

\* C7 as amended: rendering leaves the registry and the rendered tree as
\* they were, and it panics exactly when the registry lacks the identifier
\* of a Reference term it renders or the definition identifier of a Rule it
\* renders; it then returns no string.
C7_FailsOnlyOnDanglingIdentifier ==
  /\ [](Rendered => (Panicked <=> (DanglingReference \/ DanglingRuleId)))
  /\ [][out' # out =>
          (map' = map /\ id_count' = id_count /\ subject' = subject)]_vars

C7_Witness ==
  /\ Rendered
  /\ subject.op = "Definition::to_string"
  /\ Len(subject.arg.rules) = 2
  /\ DanglingReference /\ ~ DanglingRuleId
  /\ Panicked

\* head applied to args[1], then to args[2], ...: the chain, taken apart
\* from its last argument.
RECURSIVE LeftChain(_, _)
LeftChain(head, args) ==
  IF args = << >> THEN head
  ELSE App(LeftChain(head, SubSeq(args, 1, Len(args) - 1)), args[Len(args)])

\* C8: Term::call(f, []) is f, Term::call(f, [a1, ..., an]) is
\* App(call(f, [a1, ..., a(n-1)]), an), and call(f, [a, b]) is App(App(f, a), b),
\* which renders as "((" f " " a ") " b ")".
C8_CallBuildsLeftChain ==
  (subject.op = "Term::call" /\ out # None) =>
    LET f == subject.arg.called
        args == subject.arg.args
        r == out[1]
    IN  /\ args = << >> => r = f
        /\ r = LeftChain(f, args)
        /\ Len(args) = 2 =>
             /\ r = App(App(f, args[1]), args[2])
             /\ ToString(r, map) =
                  Cat(<<Some("(("), ToString(f, map), Some(" "), ToString(args[1], map),
                        Some(") "), ToString(args[2], map), Some(")")>>)
        /\ (f = Var("x") /\ args = <<Var("y"), Num(42)>>) =>
             ToString(r, map) = Some("((x y) 42)")

C8_Witness ==
  /\ subject.op = "Term::call" /\ out # None
  /\ subject.arg.called = Var("x")
  /\ subject.arg.args = <<Var("y"), Num(42)>>
  /\ out[1] = App(App(Var("x"), Var("y")), Num(42))

\* C9: From<&Pattern> turns a Constructor pattern into the left-associated
\* chain with head Variable c over its elaborated sub-patterns in order (no
\* sub-patterns: just Variable c), a named Variable pattern into that
\* Variable, an unnamed one into Variable "_", and a Numeral pattern into the
\* Numeral of the same value; Cons h t becomes ((Cons h) t).
C9_PatternElaboration ==
  (subject.op = "Term::from" /\ out # None) =>
    LET p == subject.arg
        r == out[1]
    IN  /\ p.tag = "Pattern::Ctr" =>
             /\ r = LeftChain(Var(p.nam),
                              [i \in 1 .. Len(p.args) |-> FromPattern(p.args[i])])
             /\ p.args = << >> => r = Var(p.nam)
        /\ (p.tag = "Pattern::Var" /\ p.nam # NoName) => r = Var(p.nam)
        /\ (p.tag = "Pattern::Var" /\ p.nam = NoName) => r = Var("_")
        /\ p.tag = "Pattern::Num" => r = Num(p.val)
        /\ p = PatCtr("Cons", <<PatVar("h"), PatVar("t")>>) =>
             /\ r = App(App(Var("Cons"), Var("h")), Var("t"))
             /\ ToString(r, map) = Some("((Cons h) t)")
        /\ p = PatCtr("Cons", <<PatVar(NoName), PatCtr("Nil", << >>)>>) =>
             r = App(App(Var("Cons"), Var("_")), Var("Nil"))

C9_Witness ==
  /\ subject.op = "Term::from" /\ out # None
  /\ subject.arg = PatCtr("Cons", <<PatVar("h"), PatCtr("Cons", <<PatVar("h"), PatVar("t")>>)>>)
  /\ out[1] = App(App(Var("Cons"), Var("h")),
                  App(App(Var("Cons"), Var("h")), Var("t")))

====
